---- MODULE Spec2Model ----
(***************************************************************************)
(* A model of the two colour-code scripts.                                 *)
(*                                                                         *)
(*   Colour-Pattern-Generator.py : ensure_tilde_prefix,                    *)
(*       add_prefixes_to_letters (the re.sub scan, one step per character  *)
(*       of the text), get_user_input, demonstrate_examples and the menu   *)
(*       loop of main.                                                     *)
(*   EOM_DYEING.py : alternating.                                          *)
(*                                                                         *)
(* A Python str is a sequence of code points (naturals below 256), a list  *)
(* of str a sequence of such sequences.                                    *)
(***************************************************************************)
EXTENDS Integers, Sequences, FiniteSets

VARIABLES
    pc,                 \* where control is
    caller,             \* who called add_prefixes_to_letters
    text,               \* add_prefixes_to_letters / alternating: parameter text
    prefixes,           \* add_prefixes_to_letters: parameter prefixes
    tilde_prefixes,     \* line 67
    total_letters,      \* line 70
    repetitions_needed, \* line 73
    extended_prefixes,  \* line 74
    prefix_iter,        \* line 77: how many elements the iterator has yielded
    pos,                \* re.sub: 1-based index of the next character to scan
    pieces,             \* re.sub: what has been emitted, one piece per character
    stop_iteration,     \* whether replacer's except branch (line 86) was taken
    result,             \* the value returned
    input_text,         \* get_user_input: line 186
    prefix_input,       \* get_user_input: line 195
    message,            \* what the shell printed last
    example,            \* demonstrate_examples: index of the example in hand
    shown,              \* the results printed since the last menu prompt
    c1, c2,             \* alternating: the two colour codes
    p1, p2,             \* alternating: lines 6-7
    p1c, p2c            \* alternating: lines 8-19

vars == <<pc, caller, text, prefixes, tilde_prefixes, total_letters,
          repetitions_needed, extended_prefixes, prefix_iter, pos, pieces,
          stop_iteration, result, input_text, prefix_input, message, example,
          shown, c1, c2, p1, p2, p1c, p2c>>

scanVars == <<tilde_prefixes, total_letters, repetitions_needed,
              extended_prefixes, prefix_iter, pos, pieces, stop_iteration>>

shellVars == <<input_text, prefix_input, message, example, shown>>

altVars == <<c1, c2, p1, p2, p1c, p2c>>

-----------------------------------------------------------------------------
(* Bounds of the model.                                                    *)

MaxTextLen == 3

MaxPrefixes == 2

-----------------------------------------------------------------------------
(* Characters.                                                             *)

Tilde == 126

Space == 32

Comma == 44

\* the pattern as it would match under re.ASCII
IsAsciiWordMutant(c) ==
    \/ c \in 48..57
    \/ c \in 65..90
    \/ c = 95
    \/ c \in 97..122

\* The pattern r'\w' on a str (Python 3: Unicode matching is the default):
\* [A-Za-z0-9_] and every other alphanumeric code point. Below 256 those are
\* the Latin-1 letters, the superscript digits and the vulgar fractions.
IsWord(c) ==
    \/ c \in 48..57
    \/ c \in 65..90
    \/ c = 95
    \/ c \in 97..122
    \/ c \in {170, 178, 179, 181, 185, 186, 188, 189, 190}
    \/ c \in 192..214
    \/ c \in 216..246
    \/ c \in 248..255

\* str.strip() removes these (the whitespace code points below 256).
IsWhitespace(c) == c \in {9, 10, 11, 12, 13, 28, 29, 30, 31, 32, 133, 160}

-----------------------------------------------------------------------------
(* Helpers for Python's str and list operations.                           *)

RECURSIVE Join(_)
\* "".join(parts)
Join(parts) ==
    IF parts = <<>> THEN <<>> ELSE Head(parts) \o Join(Tail(parts))

RECURSIVE Times(_, _)
\* list * n
Times(list, n) ==
    IF n <= 0 THEN <<>> ELSE list \o Times(list, n - 1)

\* s.startswith(t)
StartsWith(s, t) ==
    /\ Len(t) <= Len(s)
    /\ SubSeq(s, 1, Len(t)) = t

-----------------------------------------------------------------------------
(* ensure_tilde_prefix                                                     *)

RECURSIVE ensure_tilde_prefix_loop(_, _)
\* the for loop of lines 45-49, tilde_prefixes being the list built so far
ensure_tilde_prefix_loop(rest, tilde) ==
    IF rest = <<>> THEN tilde
    ELSE IF ~StartsWith(Head(rest), <<Tilde>>)
         THEN ensure_tilde_prefix_loop(Tail(rest), Append(tilde, <<Tilde>> \o Head(rest)))
         ELSE ensure_tilde_prefix_loop(Tail(rest), Append(tilde, Head(rest)))

\* ensure_tilde_prefix without the startswith test
ensure_tilde_prefix_mutant(list) ==
    [i \in 1..Len(list) |-> <<Tilde>> \o list[i]]

ensure_tilde_prefix(list) ==
    ensure_tilde_prefix_loop(list, <<>>)

-----------------------------------------------------------------------------
(* add_prefixes_to_letters                                                 *)

\* line 63 without its test of prefixes
EarlyReturnMutant(t, ps) == t = <<>>

\* line 63: not text or not prefixes
EarlyReturn(t, ps) == t = <<>> \/ ps = <<>>

\* line 70: len(re.findall(r'\w', text))
CountLetters(t) == Cardinality({i \in 1..Len(t) : IsWord(t[i])})

\* line 73 without its + 1
RepetitionsNeededMutant(total, n) == total \div n

\* line 73 as a ceiling division
RepetitionsCeilingMutant(total, n) == (total + n - 1) \div n

\* line 73
RepetitionsNeeded(total, n) == (total \div n) + 1

\* replacer returning the prefix without the matched character
replacer_mutant(yielded, extended, ch) ==
    IF yielded < Len(extended)
    THEN [piece |-> extended[yielded + 1], yielded |-> yielded + 1, stop |-> FALSE]
    ELSE [piece |-> <<ch>>, yielded |-> yielded, stop |-> TRUE]

\* lines 83-88: next(prefix_iter) + match.group(0), or the bare match when the
\* iterator is exhausted
replacer(yielded, extended, ch) ==
    IF yielded < Len(extended)
    THEN [piece |-> extended[yielded + 1] \o <<ch>>, yielded |-> yielded + 1, stop |-> FALSE]
    ELSE [piece |-> <<ch>>, yielded |-> yielded, stop |-> TRUE]

\* lines 63-77: the early return, or the set-up of the scan. A list of
\* length 0 at line 73 raises ZeroDivisionError.
Enter ==
    /\ pc = "call"
    /\ IF EarlyReturn(text, prefixes)
       THEN /\ result' = text
            /\ pc' = "return"
            /\ UNCHANGED scanVars
       ELSE LET tilde == ensure_tilde_prefix(prefixes)
                total == CountLetters(text)
            IN  IF Len(tilde) = 0
                THEN /\ pc' = "raised"
                     /\ tilde_prefixes' = tilde
                     /\ total_letters' = total
                     /\ UNCHANGED <<repetitions_needed, extended_prefixes,
                                    prefix_iter, pos, pieces, stop_iteration, result>>
                ELSE /\ pc' = "scan"
                     /\ tilde_prefixes' = tilde
                     /\ total_letters' = total
                     /\ repetitions_needed' = RepetitionsNeeded(total, Len(tilde))
                     /\ extended_prefixes' = Times(tilde, RepetitionsNeeded(total, Len(tilde)))
                     /\ prefix_iter' = 0
                     /\ pos' = 1
                     /\ pieces' = <<>>
                     /\ stop_iteration' = FALSE
                     /\ UNCHANGED result
    /\ UNCHANGED <<caller, text, prefixes>>
    /\ UNCHANGED shellVars
    /\ UNCHANGED altVars

\* line 91, a character the pattern matches: replacer is called
ReplaceMatch ==
    /\ pc = "scan"
    /\ pos <= Len(text)
    /\ IsWord(text[pos])
    /\ LET r == replacer(prefix_iter, extended_prefixes, text[pos])
       IN  /\ pieces' = Append(pieces, r.piece)
           /\ prefix_iter' = r.yielded
           /\ stop_iteration' = (stop_iteration \/ r.stop)
    /\ pos' = pos + 1
    /\ UNCHANGED <<pc, caller, text, prefixes, tilde_prefixes, total_letters,
                   repetitions_needed, extended_prefixes, result>>
    /\ UNCHANGED shellVars
    /\ UNCHANGED altVars

\* line 91, a character the pattern does not match: copied as it is
PassThrough ==
    /\ pc = "scan"
    /\ pos <= Len(text)
    /\ ~IsWord(text[pos])
    /\ pieces' = Append(pieces, <<text[pos]>>)
    /\ pos' = pos + 1
    /\ UNCHANGED <<pc, caller, text, prefixes, tilde_prefixes, total_letters,
                   repetitions_needed, extended_prefixes, prefix_iter,
                   stop_iteration, result>>
    /\ UNCHANGED shellVars
    /\ UNCHANGED altVars

\* line 91: the end of the text, re.sub returns the joined pieces
Finish ==
    /\ pc = "scan"
    /\ pos > Len(text)
    /\ result' = Join(pieces)
    /\ pc' = "return"
    /\ UNCHANGED <<caller, text, prefixes>>
    /\ UNCHANGED scanVars
    /\ UNCHANGED shellVars
    /\ UNCHANGED altVars

-----------------------------------------------------------------------------
(* The inputs of a direct call of add_prefixes_to_letters.                 *)

\* A, 7, _, space, ~, e-acute, pound sign
TextAlphabet == {65, 55, 95, Space, Tilde, 233, 163}

RECURSIVE SeqsUpTo(_, _)
\* the sequences over S of length at most n
SeqsUpTo(S, n) ==
    IF n = 0 THEN {<<>>}
    ELSE LET shorter == SeqsUpTo(S, n - 1)
         IN  shorter \cup {Append(s, x) : s \in shorter, x \in S}

Texts == SeqsUpTo(TextAlphabet, MaxTextLen)

\* "", "A", "~7"
PrefixPool == {<<>>, <<65>>, <<Tilde, 55>>}

PrefixLists == SeqsUpTo(PrefixPool, MaxPrefixes)

\* the example of the module docstring, lines 13-16: "Hello World!", ["W1", "W2"]
DocText == <<72, 101, 108, 108, 111, 32, 87, 111, 114, 108, 100, 33>>

DocPrefixes == <<(<<87, 49>>), (<<87, 50>>)>>

\* the output the docstring gives, line 16
DocOutput ==
    <<126, 87, 49, 72, 126, 87, 50, 101, 126, 87, 49, 108, 126, 87, 50, 108,
      126, 87, 49, 111, 126, 87, 50, 32, 126, 87, 49, 87, 126, 87, 50, 111,
      126, 87, 49, 114, 126, 87, 50, 108, 126, 87, 49, 100, 126, 87, 50, 33>>

InitIdle ==
    /\ tilde_prefixes = <<>>
    /\ total_letters = 0
    /\ repetitions_needed = 0
    /\ extended_prefixes = <<>>
    /\ prefix_iter = 0
    /\ pos = 1
    /\ pieces = <<>>
    /\ stop_iteration = FALSE
    /\ result = <<>>
    /\ input_text = <<>>
    /\ prefix_input = <<>>
    /\ message = "none"
    /\ example = 0
    /\ shown = <<>>
    /\ p1 = <<>>
    /\ p2 = <<>>
    /\ p1c = <<>>
    /\ p2c = <<>>

\* a call add_prefixes_to_letters(text, prefixes)
Init ==
    /\ pc = "call"
    /\ caller = "direct"
    /\ \/ text \in Texts /\ prefixes \in PrefixLists
       \/ text = DocText /\ prefixes = DocPrefixes
    /\ c1 = <<>>
    /\ c2 = <<>>
    /\ InitIdle

Next ==
    \/ Enter
    \/ ReplaceMatch
    \/ PassThrough
    \/ Finish

Spec == Init /\ [][Next]_vars

-----------------------------------------------------------------------------
(* The interactive shell: get_user_input, demonstrate_examples, main.      *)

MaxLineLen == 3

RECURSIVE LStrip(_)
\* s.lstrip()
LStrip(s) ==
    IF s # <<>> /\ IsWhitespace(Head(s)) THEN LStrip(Tail(s)) ELSE s

RECURSIVE RStrip(_)
\* s.rstrip()
RStrip(s) ==
    IF s # <<>> /\ IsWhitespace(s[Len(s)])
    THEN RStrip(SubSeq(s, 1, Len(s) - 1))
    ELSE s

\* s.strip()
Strip(s) == RStrip(LStrip(s))

RECURSIVE SplitLoop(_, _, _)
\* s.split(sep), parts being the fields closed so far and field the open one
SplitLoop(s, parts, field) ==
    IF s = <<>> THEN Append(parts, field)
    ELSE IF Head(s) = Comma
         THEN SplitLoop(Tail(s), Append(parts, field), <<>>)
         ELSE SplitLoop(Tail(s), parts, Append(field, Head(s)))

\* s.split(',')
Split(s) == SplitLoop(s, <<>>, <<>>)

RECURSIVE StripAll(_)
\* [p.strip() for p in parts]
StripAll(parts) ==
    IF parts = <<>> THEN <<>>
    ELSE <<Strip(Head(parts))>> \o StripAll(Tail(parts))

RECURSIVE StripNonEmpty(_)
\* [p.strip() for p in parts if p.strip()]
StripNonEmpty(parts) ==
    IF parts = <<>> THEN <<>>
    ELSE IF Strip(Head(parts)) # <<>>
         THEN <<Strip(Head(parts))>> \o StripNonEmpty(Tail(parts))
         ELSE StripNonEmpty(Tail(parts))

\* line 202 without its filter
ParsePrefixesMutant(s) == StripAll(Split(s))

\* line 202: [p.strip() for p in prefix_input.split(',') if p.strip()]
ParsePrefixes(s) == StripNonEmpty(Split(s))

\* what the operator may type at a prompt: space, comma, A
LineAlphabet == {Space, Comma, 65}

Lines == SeqsUpTo(LineAlphabet, MaxLineLen)

\* what the operator may type at the menu: "1", " 1 ", "2", "3", "4", "5", ""
ChoiceLines ==
    {<<49>>, <<Space, 49, Space>>, <<50>>, <<51>>, <<52>>, <<53>>, <<>>}

\* lines 212-217
Examples ==
    << [text |-> <<72, 101, 108, 108, 111, 32, 87, 111, 114, 108, 100, 33>>,
        prefixes |-> <<(<<65>>), (<<66>>)>>],
       [text |-> <<80, 121, 116, 104, 111, 110, 49, 50, 51>>,
        prefixes |-> <<(<<49>>), (<<50>>)>>],
       [text |-> <<84, 101, 115, 116>>,
        prefixes |-> <<(<<114, 101, 100>>), (<<98, 108, 117, 101>>),
                       (<<103, 114, 101, 101, 110>>)>>],
       [text |-> <<82, 101, 103, 101, 120, 33>>,
        prefixes |-> <<(<<88>>), (<<89>>), (<<90>>)>>] >>

\* the locals of add_prefixes_to_letters are gone once its caller has the result
FrameDropped ==
    /\ text' = <<>>
    /\ prefixes' = <<>>
    /\ tilde_prefixes' = <<>>
    /\ total_letters' = 0
    /\ repetitions_needed' = 0
    /\ extended_prefixes' = <<>>
    /\ prefix_iter' = 0
    /\ pos' = 1
    /\ pieces' = <<>>
    /\ stop_iteration' = FALSE
    /\ result' = <<>>

calleeVars == <<text, prefixes, tilde_prefixes, total_letters,
                repetitions_needed, extended_prefixes, prefix_iter, pos,
                pieces, stop_iteration, result>>

\* lines 243-247 and 181-186: choice '1', get_user_input prompts for the text
ChooseProcess ==
    /\ pc = "menu"
    /\ \E line \in ChoiceLines : Strip(line) = <<49>>
    /\ pc' = "input_text"
    /\ input_text' = <<>>
    /\ prefix_input' = <<>>
    /\ message' = "enter_text"
    /\ shown' = <<>>
    /\ UNCHANGED <<caller, example>>
    /\ UNCHANGED calleeVars
    /\ UNCHANGED altVars

\* lines 186-189: the text line; an empty one is reported and get_user_input
\* returns None, None, which main skips (line 249)
ReadText ==
    /\ pc = "input_text"
    /\ \E line \in Lines :
          /\ input_text' = Strip(line)
          /\ IF Strip(line) = <<>>
             THEN /\ message' = "error_no_text"
                  /\ pc' = "menu"
             ELSE /\ message' = "enter_prefixes"
                  /\ pc' = "input_prefixes"
    /\ UNCHANGED <<caller, prefix_input, example, shown>>
    /\ UNCHANGED calleeVars
    /\ UNCHANGED altVars

\* lines 195-208 and 249-251: the line of colour codes; main calls
\* add_prefixes_to_letters with what get_user_input returns
ReadPrefixes ==
    /\ pc = "input_prefixes"
    /\ \E line \in Lines :
          /\ prefix_input' = Strip(line)
          /\ IF Strip(line) = <<>>
             THEN /\ message' = "error_no_codes"
                  /\ pc' = "menu"
                  /\ UNCHANGED <<caller, text, prefixes>>
             ELSE IF ParsePrefixes(Strip(line)) = <<>>
             THEN /\ message' = "error_no_valid_codes"
                  /\ pc' = "menu"
                  /\ UNCHANGED <<caller, text, prefixes>>
             ELSE /\ message' = "processing"
                  /\ text' = input_text
                  /\ prefixes' = ParsePrefixes(Strip(line))
                  /\ caller' = "main"
                  /\ pc' = "call"
    /\ UNCHANGED <<input_text, example, shown>>
    /\ UNCHANGED <<result>>
    /\ UNCHANGED scanVars
    /\ UNCHANGED altVars

\* lines 254 and 113-177: display_copyable_output prints the result
Display ==
    /\ pc = "return"
    /\ caller = "main"
    /\ shown' = <<result>>
    /\ message' = "copyable_output"
    /\ pc' = "menu"
    /\ caller' = "none"
    /\ FrameDropped
    /\ UNCHANGED <<input_text, prefix_input, example>>
    /\ UNCHANGED altVars

\* lines 256-258 and 223-224: choice '2', demonstrate_examples calls
\* add_prefixes_to_letters with the first example
ChooseExamples ==
    /\ pc = "menu"
    /\ \E line \in ChoiceLines : Strip(line) = <<50>>
    /\ example' = 1
    /\ text' = Examples[1].text
    /\ prefixes' = Examples[1].prefixes
    /\ caller' = "demonstrate_examples"
    /\ pc' = "call"
    /\ message' = "examples"
    /\ shown' = <<>>
    /\ input_text' = <<>>
    /\ prefix_input' = <<>>
    /\ UNCHANGED <<result>>
    /\ UNCHANGED scanVars
    /\ UNCHANGED altVars

\* lines 223-230: an example's result is printed and the loop goes on
ExampleShown ==
    /\ pc = "return"
    /\ caller = "demonstrate_examples"
    /\ shown' = Append(shown, result)
    /\ IF example < Len(Examples)
       THEN /\ example' = example + 1
            /\ text' = Examples[example + 1].text
            /\ prefixes' = Examples[example + 1].prefixes
            /\ pc' = "call"
            /\ UNCHANGED <<caller, result>>
            /\ UNCHANGED scanVars
       ELSE /\ example' = 0
            /\ pc' = "menu"
            /\ caller' = "none"
            /\ FrameDropped
    /\ UNCHANGED <<input_text, prefix_input, message>>
    /\ UNCHANGED altVars

\* lines 260-264: choice '3'
ChooseInstall ==
    /\ pc = "menu"
    /\ \E line \in ChoiceLines : Strip(line) = <<51>>
    /\ message' = "install_instructions"
    /\ shown' = <<>>
    /\ input_text' = <<>>
    /\ prefix_input' = <<>>
    /\ UNCHANGED <<pc, caller, example>>
    /\ UNCHANGED calleeVars
    /\ UNCHANGED altVars

\* lines 266-268: choice '4'
ChooseQuit ==
    /\ pc = "menu"
    /\ \E line \in ChoiceLines : Strip(line) = <<52>>
    /\ message' = "goodbye"
    /\ pc' = "exit"
    /\ shown' = <<>>
    /\ input_text' = <<>>
    /\ prefix_input' = <<>>
    /\ UNCHANGED <<caller, example>>
    /\ UNCHANGED calleeVars
    /\ UNCHANGED altVars

\* lines 270-271: any other choice
ChooseInvalid ==
    /\ pc = "menu"
    /\ \E line \in ChoiceLines :
          Strip(line) \notin {<<49>>, <<50>>, <<51>>, <<52>>}
    /\ message' = "invalid_choice"
    /\ shown' = <<>>
    /\ input_text' = <<>>
    /\ prefix_input' = <<>>
    /\ UNCHANGED <<pc, caller, example>>
    /\ UNCHANGED calleeVars
    /\ UNCHANGED altVars

\* line 234: main has printed its welcome and shows the menu
ShellInit ==
    /\ pc = "menu"
    /\ caller = "none"
    /\ text = <<>>
    /\ prefixes = <<>>
    /\ c1 = <<>>
    /\ c2 = <<>>
    /\ InitIdle

ShellNext ==
    \/ ChooseProcess
    \/ ReadText
    \/ ReadPrefixes
    \/ Enter
    \/ ReplaceMatch
    \/ PassThrough
    \/ Finish
    \/ Display
    \/ ChooseExamples
    \/ ExampleShown
    \/ ChooseInstall
    \/ ChooseQuit
    \/ ChooseInvalid

ShellSpec == ShellInit /\ [][ShellNext]_vars

-----------------------------------------------------------------------------
(* EOM_DYEING.py: alternating                                              *)

\* an element zip_longest yields: a string of the list, or the fill value None
Some(v) == [some |-> TRUE, val |-> v]

None == [some |-> FALSE, val |-> <<>>]

\* the truth value of a str or None
Truthy(x) == x.some /\ x.val # <<>>

\* textf[start::2], start counted from 0
EverySecond(textf, start) ==
    [k \in 1..((Len(textf) - start + 1) \div 2) |-> textf[start + 2 * k - 1]]

\* the colouring loop without its test for a space
ColourMutant(part, c) ==
    [k \in 1..Len(part) |-> c \o <<part[k]>>]

\* lines 10-14 and 15-19: a space is kept, any other character gets the code
Colour(part, c) ==
    [k \in 1..Len(part) |->
        IF part[k] = Space THEN <<part[k]>> ELSE c \o <<part[k]>>]

\* itertools.zip_longest(a, b)
ZipLongest(a, b) ==
    [k \in 1..(IF Len(a) >= Len(b) THEN Len(a) ELSE Len(b)) |->
        <<IF k <= Len(a) THEN Some(a[k]) ELSE None,
          IF k <= Len(b) THEN Some(b[k]) ELSE None>>]

RECURSIVE FormLoop(_, _)
\* lines 21-25, form being the list built so far
FormLoop(pairs, form) ==
    IF pairs = <<>> THEN form
    ELSE LET f == Head(pairs)[1]
             b == Head(pairs)[2]
             form1 == IF Truthy(f) THEN Append(form, f.val) ELSE form
             form2 == IF Truthy(b) THEN Append(form1, b.val) ELSE form1
         IN  FormLoop(Tail(pairs), form2)

\* lines 5-7
AltSplit ==
    /\ pc = "alternating"
    /\ p2' = EverySecond(text, 1)
    /\ p1' = EverySecond(text, 0)
    /\ pc' = "colour_p1"
    /\ UNCHANGED <<caller, text, prefixes, result, c1, c2, p1c, p2c>>
    /\ UNCHANGED scanVars
    /\ UNCHANGED shellVars

\* lines 8-14
AltColourP1 ==
    /\ pc = "colour_p1"
    /\ p1c' = Colour(p1, c1)
    /\ pc' = "colour_p2"
    /\ UNCHANGED <<caller, text, prefixes, result, c1, c2, p1, p2, p2c>>
    /\ UNCHANGED scanVars
    /\ UNCHANGED shellVars

\* lines 15-19
AltColourP2 ==
    /\ pc = "colour_p2"
    /\ p2c' = Colour(p2, c2)
    /\ pc' = "form"
    /\ UNCHANGED <<caller, text, prefixes, result, c1, c2, p1, p2, p1c>>
    /\ UNCHANGED scanVars
    /\ UNCHANGED shellVars

\* lines 20-26
AltForm ==
    /\ pc = "form"
    /\ result' = Join(FormLoop(ZipLongest(p1c, p2c), <<>>))
    /\ pc' = "return"
    /\ UNCHANGED <<caller, text, prefixes>>
    /\ UNCHANGED altVars
    /\ UNCHANGED scanVars
    /\ UNCHANGED shellVars

\* "", "~L7", "~G2" (line 73), "X"
CodePool == {<<>>, <<126, 76, 55>>, <<126, 71, 50>>, <<88>>}

\* a call alternating(text, c1, c2)
AltInit ==
    /\ pc = "alternating"
    /\ caller = "direct"
    /\ text \in Texts
    /\ prefixes = <<>>
    /\ c1 \in CodePool
    /\ c2 \in CodePool
    /\ InitIdle

AltNext ==
    \/ AltSplit
    \/ AltColourP1
    \/ AltColourP2
    \/ AltForm

AltSpec == AltInit /\ [][AltNext]_vars

-----------------------------------------------------------------------------
(* Reference definitions the properties are stated with. They are written  *)
(* from the statements, not from the operators above.                      *)

\* the ASCII class [A-Za-z0-9_]
InAsciiClass(c) == c \in (48..57) \cup (65..90) \cup {95} \cup (97..122)

\* what Python 3 matches with r'\w' on a str, below 256: the ASCII class and
\* the alphanumeric code points of Latin-1
InUnicodeWordClass(c) ==
    \/ InAsciiClass(c)
    \/ c \in {170, 178, 179, 181, 185, 186, 188, 189, 190}
             \cup (192..214) \cup (216..246) \cup (248..255)

\* element i is markers[i] when it starts with '~', '~' + markers[i] otherwise
Normalized(markers) ==
    [i \in 1..Len(markers) |->
        IF Len(markers[i]) > 0 /\ markers[i][1] = 126
        THEN markers[i]
        ELSE <<126>> \o markers[i]]

RECURSIVE ModuloCycling(_, _, _)
\* the k-th matched character gets markers[k mod len(markers)]
ModuloCycling(t, markers, k) ==
    IF t = <<>> THEN <<>>
    ELSE IF IsWord(Head(t))
         THEN markers[(k % Len(markers)) + 1] \o <<Head(t)>>
              \o ModuloCycling(Tail(t), markers, k + 1)
         ELSE <<Head(t)>> \o ModuloCycling(Tail(t), markers, k)

RECURSIVE StripTokens(_, _)
\* s with every left-to-right non-overlapping occurrence of a token deleted
\* (at a position where several tokens occur, the first of the list)
StripTokens(s, tokens) ==
    IF s = <<>> THEN <<>>
    ELSE LET hits == {j \in 1..Len(tokens) : StartsWith(s, tokens[j])}
         IN  IF hits # {}
             THEN LET j == CHOOSE h \in hits : \A g \in hits : h <= g
                  IN  StripTokens(SubSeq(s, Len(tokens[j]) + 1, Len(s)), tokens)
             ELSE <<Head(s)>> \o StripTokens(Tail(s), tokens)

\* no token is a proper prefix of another
PrefixFree(tokens) ==
    \A i, j \in 1..Len(tokens) :
        StartsWith(tokens[i], tokens[j]) => tokens[i] = tokens[j]

HasChar(s, c) == \E i \in 1..Len(s) : s[i] = c

\* the call got past the early return of line 63
Scanning == pc \in {"scan", "return"} /\ text # <<>> /\ prefixes # <<>>

-----------------------------------------------------------------------------
(* The properties.                                                         *)

\* C1: for a non-empty marker list, the value returned is the modulo-cycling
\* reference: the k-th matched character (k from 0, counted over matched
\* characters only) is emitted as normalize(markers)[k mod len(markers)]
\* followed by the character, every other character is emitted unchanged and
\* does not advance k, and the characters keep their order. (Which characters
\* match is the subject of C5.)
C1_ModuloCycling ==
    (pc = "return" /\ prefixes # <<>>)
        => result = ModuloCycling(text, Normalized(prefixes), 0)

C1_Witness ==
    /\ pc = "return"
    /\ Len(prefixes) = 2
    /\ prefixes[1] # prefixes[2]
    /\ total_letters = 3
    /\ prefix_iter = 3
    /\ result = ModuloCycling(text, Normalized(prefixes), 0)

\* C2: the text is returned unchanged, and nothing is raised, whenever the
\* text is empty or the marker list is empty.
C2_Identity ==
    ((text = <<>> \/ prefixes = <<>>) /\ pc # "call")
        => (pc = "return" /\ result = text)

C2_Witness ==
    /\ pc = "return"
    /\ prefixes = <<>>
    /\ Len(text) = MaxTextLen
    /\ result = text

\* C3: decorate("Hello World!", ["W1", "W2"]) returns the string of the module
\* docstring, "~W1H~W2e~W1l~W2l~W1o~W2 ~W1W~W2o~W1r~W2l~W1d~W2!".
C3_DocExample ==
    (pc = "return" /\ text = DocText /\ prefixes = DocPrefixes)
        => result = DocOutput

\* what ensure_tilde_prefix has returned, against the list it was given
C4_NormalizedState ==
    Scanning =>
        /\ Len(tilde_prefixes) = Len(prefixes)
        /\ tilde_prefixes = Normalized(prefixes)
        /\ \A i \in 1..Len(tilde_prefixes) :
              /\ Len(tilde_prefixes[i]) > 0
              /\ tilde_prefixes[i][1] = 126
              /\ (prefixes[i] = <<>> => tilde_prefixes[i] = <<126>>)

\* C4: ensure_tilde_prefix returns a list of the same length and order in
\* which element i is markers[i] itself when it starts with '~' and
\* '~' + markers[i] otherwise (the empty string becomes '~', every element
\* starts with '~'), and the list it was given is left as it was.
C4_EnsureTildePrefix ==
    /\ []C4_NormalizedState
    /\ [][pc = "call" => prefixes' = prefixes]_vars

C4_Witness ==
    /\ pc = "scan"
    /\ Len(prefixes) = 2
    /\ prefixes[1] = <<>>
    /\ tilde_prefixes[1] = <<126>>
    /\ Len(prefixes[2]) > 0
    /\ prefixes[2][1] = 126
    /\ tilde_prefixes[2] = prefixes[2]

\* C5 (as claimed): a character receives a marker prefix if and only if it is
\* in the ASCII class [A-Za-z0-9_]; every other character is passed through
\* unprefixed and consumes no marker.
C5_AsciiClassOnly ==
    Scanning =>
        /\ \A i \in 1..Len(pieces) :
              (pieces[i] # <<text[i]>>) <=> InAsciiClass(text[i])
        /\ prefix_iter =
              Cardinality({i \in 1..Len(pieces) : InAsciiClass(text[i])})

\* C5 (amended): a character receives a marker prefix if and only if the
\* pattern r'\w' matches it as Python 3 matches a str: the ASCII class and
\* the non-ASCII alphanumerics; every other character is passed through
\* unprefixed and consumes no marker.
C5_UnicodeWordClass ==
    Scanning =>
        /\ \A i \in 1..Len(pieces) :
              /\ (pieces[i] # <<text[i]>>) <=> InUnicodeWordClass(text[i])
              /\ pieces[i][Len(pieces[i])] = text[i]
        /\ prefix_iter =
              Cardinality({i \in 1..Len(pieces) : InUnicodeWordClass(text[i])})

C5_Witness ==
    /\ pc = "return"
    /\ prefixes # <<>>
    /\ Len(text) = 3
    /\ text[1] = 233
    /\ pieces[1] # <<233>>
    /\ text[2] = 163
    /\ pieces[2] = <<163>>
    /\ text[3] = 65
    /\ prefix_iter = 2

\* C6 (as claimed): for every text and every marker list, deleting every
\* left-to-right non-overlapping occurrence of a normalized marker from the
\* value returned reconstructs the text, also when the text contains '~' or a
\* normalized marker.
C6_StripReconstructs ==
    pc = "return" => StripTokens(result, Normalized(prefixes)) = text

\* C6 (amended): the same, for a text that contains no '~' and a marker list
\* in which no normalized marker is a proper prefix of another.
C6_StripReconstructsTildeFree ==
    (pc = "return" /\ ~HasChar(text, 126) /\ PrefixFree(Normalized(prefixes)))
        => StripTokens(result, Normalized(prefixes)) = text

C6_Witness ==
    /\ pc = "return"
    /\ ~HasChar(text, 126)
    /\ Len(prefixes) = 2
    /\ Normalized(prefixes)[1] # Normalized(prefixes)[2]
    /\ PrefixFree(Normalized(prefixes))
    /\ total_letters = 2
    /\ Len(text) = 3
    /\ result # text
    /\ StripTokens(result, Normalized(prefixes)) = text

\* C8: during the scan the markers consumed never exceed the extended list:
\* the extended list has at least as many entries as the text has matched
\* characters, so replacer's StopIteration fallback is never taken.
C8_NeverExhausted ==
    /\ ~stop_iteration
    /\ Scanning =>
          /\ Len(extended_prefixes)
                >= Cardinality({i \in 1..Len(text) : IsWord(text[i])})
          /\ prefix_iter <= Len(extended_prefixes)
          /\ prefix_iter
                = Cardinality({i \in 1..Len(pieces) : IsWord(text[i])})

C8_Witness ==
    /\ pc = "return"
    /\ Len(prefixes) = 2
    /\ total_letters = 3
    /\ prefix_iter = 3
    /\ Len(extended_prefixes) = 4
    /\ ~stop_iteration

\* C9 (as claimed): the repetition count is the minimum R such that
\* R * len(markers) >= N, N the number of matched characters, and 1 when N
\* is 0.
C9_MinimumRepetitions ==
    Scanning =>
        LET n == Len(prefixes)
            R == repetitions_needed
        IN  /\ R >= 1
            /\ R * n >= total_letters
            /\ \A q \in 1..(R - 1) : q * n < total_letters

\* C9 (amended): the repetition count is N div len(markers) + 1, the minimum
\* R such that R * len(markers) > N: 1 when N is 0, and one more than the
\* minimum for R * len(markers) >= N exactly when N is a positive multiple of
\* len(markers). The extended list holds R copies of the normalized list.
C9_RepetitionsStrict ==
    Scanning =>
        LET n == Len(prefixes)
            N == Cardinality({i \in 1..Len(text) : IsWord(text[i])})
            R == repetitions_needed
        IN  /\ R >= 1
            /\ R * n > N
            /\ \A q \in 0..(R - 1) : q * n <= N
            /\ (N = 0 => R = 1)
            /\ Len(extended_prefixes) = R * n
            /\ \A i \in 1..(R * n) :
                  extended_prefixes[i] = tilde_prefixes[((i - 1) % n) + 1]

C9_Witness ==
    /\ pc = "scan"
    /\ Len(prefixes) = 2
    /\ total_letters = 2
    /\ repetitions_needed = 2
    /\ Len(extended_prefixes) = 4

\* what the comma-separated line holds no marker means: every character of it
\* is a comma or whitespace
NoMarkerIn(s) == \A i \in 1..Len(s) : s[i] = 44 \/ IsWhitespace(s[i])

\* a call made from option 1 has a non-empty text and non-empty markers, and
\* nothing has been raised
C7_CallState ==
    /\ pc # "raised"
    /\ (caller = "main" /\ pc \in {"call", "scan", "return"}) =>
          /\ text # <<>>
          /\ prefixes # <<>>
          /\ \A i \in 1..Len(prefixes) : prefixes[i] # <<>>

\* a rejected line leads straight back to the menu with a message, and a call
\* from option 1 starts only from the line of colour codes
C7_Step ==
    /\ (pc = "input_text" /\ input_text' = <<>>) =>
          /\ pc' = "menu"
          /\ message' = "error_no_text"
          /\ UNCHANGED <<text, prefixes, result, shown>>
    /\ (pc = "input_prefixes" /\ NoMarkerIn(prefix_input')) =>
          /\ pc' = "menu"
          /\ message' \in {"error_no_codes", "error_no_valid_codes"}
          /\ UNCHANGED <<text, prefixes, result, shown>>
    /\ (pc # "call" /\ pc' = "call" /\ caller' = "main") =>
          /\ pc = "input_prefixes"
          /\ text' # <<>>
          /\ prefixes' # <<>>

\* C7: in every run of the menu loop add_prefixes_to_letters is called from
\* option 1 only with a non-empty text and a non-empty marker list; when the
\* trimmed text is empty, the marker line is empty, or splitting on commas and
\* discarding the empty trimmed tokens leaves no marker, it is not called, a
\* message is shown and the loop is back at the menu, without a fatal error.
C7_ShellCallsWithInput == []C7_CallState /\ [][C7_Step]_vars

C7_Witness ==
    /\ pc = "menu"
    /\ message = "error_no_valid_codes"
    /\ input_text # <<>>
    /\ HasChar(prefix_input, 44)
    /\ shown = <<>>

\* C10: alternating(text, c1, c2) emits the characters of the text in their
\* order; the character at 0-based index i is emitted bare if it is a space
\* and otherwise prefixed with c1 when i is even and c2 when i is odd (spaces
\* and punctuation advance the alternation), and no character is dropped or
\* reordered, for texts of even and of odd length.
C10_Alternating ==
    pc = "return" =>
        result = Join([k \in 1..Len(text) |->
                          IF text[k] = 32 THEN <<32>>
                          ELSE IF (k - 1) % 2 = 0 THEN c1 \o <<text[k]>>
                          ELSE c2 \o <<text[k]>>])

C10_Witness ==
    /\ pc = "return"
    /\ Len(text) = 3
    /\ text[2] = 32
    /\ text[3] # 32
    /\ c1 # <<>>
    /\ c2 # <<>>
    /\ c1 # c2
    /\ result = c1 \o <<text[1], 32>> \o c1 \o <<text[3]>>

====
